---- MODULE Spec2Model ----
(***************************************************************************)
(* Markdown Maker (src/src/main.js, the BasicCrawler variant, lines 1-386) *)
(*                                                                         *)
(* Five specifications share this module:                                  *)
(*   Spec       the crawl: the queue of the BasicCrawler, requestHandler,  *)
(*              failedRequestHandler, the dataset and the statistics;      *)
(*   SpecBlock  isBlockedResponse applied to bounded responses;            *)
(*   SpecNorm   normalizeHtmlForMarkdown applied to bounded fragments,     *)
(*              once and then again on its own output;                     *)
(*   SpecPick   pickMainContent applied to bounded pages;                  *)
(*   SpecBuild  buildMarkdownFromHtml on both paths of requestHandler.     *)
(***************************************************************************)
EXTENDS Integers, Sequences, FiniteSets, TLC

(***************************************************************************)
(* Bounds of the model.                                                    *)
(***************************************************************************)
\* number of entries of input.startUrls
NumUrls == 2
\* number of rejections, in one run, that leave the try block they occur in
\* (they reach the catch block of requestHandler, or the queue)
MaxFaults == 2
\* longest body, in segments, that SpecBlock enumerates
MaxSegs == 2
\* most top-level elements of a fragment or page that SpecNorm, SpecPick and
\* SpecBuild enumerate
MaxNodes == 2

(***************************************************************************)
(* Program constants.                                                      *)
(***************************************************************************)
maxRequestRetries == 1
requestHandlerTimeoutSecs == 90
DefaultConcurrency == 5
SampleLen == 2000
MinFastBodyLen == 200
\* a response without statusCode (undefined in the source)
NoStatus == -1

VARIABLES
    input,         \* Actor.getInput(): maxItems, delayBetweenRequests, useApifyProxy
    pc,            \* per URL: where its request / handler stands
    retryCount,    \* per URL: request.retryCount
    loc,           \* per URL: the locals of the running requestHandler
    steps,         \* per URL: the awaited calls the running handler has made, in order
    dataset,       \* per URL: the records Actor.pushData has stored for it, in order
    stats,         \* stats.processedPages, stats.failedPages
    handled,       \* the crawler's handledRequestsCount
    run,           \* "crawling", then "finished" once crawler.run has returned
    faults,        \* rejections so far that reached the catch block or the queue
    resp,          \* SpecBlock: the response under test and the detector's answer
    doc            \* SpecNorm: the fragment, the base URL and the two outputs

vars == <<input, pc, retryCount, loc, steps, dataset, stats, handled, run, faults, resp, doc>>

Urls == 1 .. NumUrls

(***************************************************************************)
(* Response bodies.  A body is a sequence of segments; a segment is either *)
(* filler text (sig = "") of n characters that holds no block signal, or   *)
(* one occurrence of a block signal, written in lower case (caps = FALSE)  *)
(* or with capitals (caps = TRUE); n is the number of its characters that  *)
(* are present (fewer than the signal's length once a slice has cut it).   *)
(***************************************************************************)
blockSignals ==
    << "access denied", "forbidden", "unauthorized", "captcha",
       "verify you are human", "bot detection", "temporary rate limit",
       "cloudflare" >>

SignalLen(s) ==
    CASE s = "access denied" -> 13
      [] s = "forbidden" -> 9
      [] s = "unauthorized" -> 12
      [] s = "captcha" -> 7
      [] s = "verify you are human" -> 20
      [] s = "bot detection" -> 13
      [] s = "temporary rate limit" -> 20
      [] s = "cloudflare" -> 10
      [] OTHER -> 0

Range(seq) == {seq[i] : i \in DOMAIN seq}

Count(seq, x) == Cardinality({i \in DOMAIN seq : seq[i] = x})

Filler(n) == [sig |-> "", caps |-> FALSE, n |-> n]

Signal(s, caps) == [sig |-> s, caps |-> caps, n |-> SignalLen(s)]

NoBody == [present |-> FALSE, text |-> << >>]

Body(segs) == [present |-> TRUE, text |-> segs]

RECURSIVE TextLength(_)
TextLength(segs) ==
    IF segs = << >> THEN 0 ELSE Head(segs).n + TextLength(Tail(segs))

\* String.prototype.slice(0, k)
RECURSIVE Slice(_, _)
Slice(segs, k) ==
    IF segs = << >> \/ k <= 0 THEN << >>
    ELSE IF Head(segs).n <= k
         THEN << Head(segs) >> \o Slice(Tail(segs), k - Head(segs).n)
         ELSE << [Head(segs) EXCEPT !.n = k] >>

\* String.prototype.toLowerCase()
ToLowerCase(segs) == [i \in DOMAIN segs |-> [segs[i] EXCEPT !.caps = FALSE]]

\* String.prototype.includes(signal), signal a lower-case literal
Includes(segs, signal) ==
    \E i \in DOMAIN segs :
        /\ segs[i].sig = signal
        /\ ~segs[i].caps
        /\ segs[i].n = SignalLen(signal)

\* JavaScript truthiness of a status code and of a body
TruthyStatus(statusCode) == statusCode # NoStatus /\ statusCode # 0

TruthyBody(body) == body.present /\ body.text # << >>

\* isBlockedResponse as it would be without the toLowerCase() of line 142
BlockedNoLowerCase(statusCode, body) ==
    IF TruthyStatus(statusCode) /\ statusCode >= 400 THEN TRUE
    ELSE IF ~TruthyBody(body) THEN TRUE
    ELSE LET sample == Slice(body.text, SampleLen)
         IN  \E i \in DOMAIN blockSignals : Includes(sample, blockSignals[i])

isBlockedResponse(statusCode, body) ==
    IF TruthyStatus(statusCode) /\ statusCode >= 400 THEN TRUE
    ELSE IF ~TruthyBody(body) THEN TRUE
    ELSE LET sample == ToLowerCase(Slice(body.text, SampleLen))
         IN  \E i \in DOMAIN blockSignals : Includes(sample, blockSignals[i])

(***************************************************************************)
(* The crawl.  Inputs of a run and the outcomes the environment can give.  *)
(***************************************************************************)
\* The runs without a delay (up to DefaultConcurrency handlers at a time) are
\* taken without proxy and without maxItems; the runs whose delay reaches the
\* handler timeout are taken with maxItems or without proxy.
ValidInputs ==
    { i \in [ startUrls : {"array"},
              maxItems : {0, 1},                  \* 0: maxItems absent (null)
              delayBetweenRequests : {0, 2, 90},
              useApifyProxy : BOOLEAN ] :
        /\ i.delayBetweenRequests = 0 => (~i.useApifyProxy /\ i.maxItems = 0)
        /\ i.delayBetweenRequests >= requestHandlerTimeoutSecs
              => (~i.useApifyProxy \/ i.maxItems = 1) }

\* line 192: no input, no startUrls, startUrls that is no array, an empty array
InvalidInputs ==
    [ startUrls : {"no input", "absent", "not an array", "empty array"},
      maxItems : {0}, delayBetweenRequests : {0}, useApifyProxy : {TRUE} ]

Inputs == ValidInputs \cup InvalidInputs

ShortClean == Body(<< Filler(41) >>)
LongClean == Body(<< Filler(500) >>)
LongCaptcha == Body(<< Filler(300), Signal("captcha", TRUE), Filler(100) >>)

\* what gotScraping can resolve to: one response of each kind the handler
\* tells apart (accepted, too short, block phrase, error status)
FastResponses ==
    { [statusCode |-> 200, body |-> LongClean],
      [statusCode |-> 200, body |-> ShortClean],
      [statusCode |-> 200, body |-> LongCaptcha],
      [statusCode |-> 403, body |-> LongClean] }

\* what page.content() can resolve to
RenderedPages == {LongClean, LongCaptcha}

NoResponse == [statusCode |-> NoStatus, body |-> NoBody]

\* the locals of a requestHandler call that has just begun
FreshLocals ==
    [ fast     |-> "none",       \* fast fetch: "none", "threw", "rejected", "accepted"
      response |-> NoResponse,   \* { statusCode, body } the fast fetch resolved to
      result   |-> "null",       \* "null", or the strategy that built it
      browser  |-> "none",       \* "none", "open" or "closed"
      html     |-> NoBody,       \* the HTML handed to buildMarkdownFromHtml
      error    |-> "" ]          \* error.message of the error the catch block holds

\* the block-scoped values (response, html) are gone once control has left
\* the try blocks that declare them
OutOfScope(locals) == [locals EXCEPT !.response = NoResponse, !.html = NoBody]

Running(u) == pc[u] \notin {"queued", "done", "failed"}

\* BasicCrawler options
maxRequestsPerCrawl == input.maxItems

maxConcurrency ==
    IF input.delayBetweenRequests > 0 THEN 1 ELSE DefaultConcurrency

isMaxPagesExceeded == maxRequestsPerCrawl # 0 /\ maxRequestsPerCrawl <= handled

\* the records of lines 307-314 and 330-338; markdown stands for the page the
\* markdown text was built from
SuccessRecord(html) == [success |-> TRUE, markdown |-> html, errorMessage |-> ""]

FailureRecord(message) == [success |-> FALSE, markdown |-> NoBody, errorMessage |-> message]

\* an awaited call rejects and nothing absorbs the rejection where it occurs
Fault ==
    /\ faults < MaxFaults
    /\ faults' = faults + 1

\* the handler moves on to its next await
Goto_(u, next, step, locals) ==
    /\ pc' = [pc EXCEPT ![u] = next]
    /\ loc' = [loc EXCEPT ![u] = locals]
    /\ steps' = [steps EXCEPT ![u] = Append(@, step)]

\* control enters the catch block of requestHandler with `message`
Catch(u, step, locals, message) ==
    /\ Goto_(u, "catch", step, [OutOfScope(locals) EXCEPT !.error = message])
    /\ stats' = [stats EXCEPT !.failedPages = @ + 1]
    /\ Fault
    /\ UNCHANGED <<input, retryCount, dataset, handled, run, resp, doc>>

Continue(u, next, step, locals) ==
    /\ Goto_(u, next, step, locals)
    /\ UNCHANGED <<input, retryCount, dataset, stats, handled, run, faults, resp, doc>>

\* requestHandler returned normally: its locals are gone and the request is
\* marked handled
Returned(u) ==
    /\ pc' = [pc EXCEPT ![u] = "done"]
    /\ loc' = [loc EXCEPT ![u] = FreshLocals]
    /\ steps' = [steps EXCEPT ![u] = << >>]
    /\ handled' = handled + 1

failedRequestHandler(u) ==
    stats' = [stats EXCEPT !.failedPages = @ + 1]

\* requestHandler rejected or timed out: the queue retries the request or
\* gives it up
Escaped(u) ==
    /\ loc' = [loc EXCEPT ![u] = FreshLocals]
    /\ steps' = [steps EXCEPT ![u] = << >>]
    /\ IF retryCount[u] < maxRequestRetries
       THEN /\ retryCount' = [retryCount EXCEPT ![u] = @ + 1]
            /\ pc' = [pc EXCEPT ![u] = "queued"]
            /\ UNCHANGED <<stats, handled>>
       ELSE /\ failedRequestHandler(u)
            /\ pc' = [pc EXCEPT ![u] = "failed"]
            /\ handled' = handled + 1
            /\ UNCHANGED retryCount

InitCrawl ==
    /\ pc = [u \in Urls |-> "queued"]
    /\ retryCount = [u \in Urls |-> 0]
    /\ loc = [u \in Urls |-> FreshLocals]
    /\ steps = [u \in Urls |-> << >>]
    /\ dataset = [u \in Urls |-> << >>]
    /\ stats = [processedPages |-> 0, failedPages |-> 0]
    /\ handled = 0
    /\ run = "starting"
    /\ faults = 0

NoResp == [statusCode |-> NoStatus, body |-> NoBody, blocked |-> FALSE, stage |-> "off"]

NoDoc == [stage |-> "off"]

Init ==
    /\ input \in Inputs
    /\ InitCrawl
    /\ resp = NoResp
    /\ doc = NoDoc

\* lines 190-194: Actor.getInput() and the validation; an invalid input throws
\* to the catch of line 380, which reports the error
ValidateInput ==
    /\ run = "starting"
    /\ run' = IF input.startUrls = "array" THEN "configuring" ELSE "aborted"
    /\ UNCHANGED <<input, pc, retryCount, loc, steps, dataset, stats, handled, faults,
                   resp, doc>>

\* lines 244-246: Actor.createProxyConfiguration, awaited inside the try of
\* line 188; its rejection is caught at line 380
CreateProxyConfiguration ==
    /\ run = "configuring"
    /\ \/ run' = "crawling"
       \/ input.useApifyProxy /\ run' = "aborted"
    /\ UNCHANGED <<input, pc, retryCount, loc, steps, dataset, stats, handled, faults,
                   resp, doc>>

\* the queue hands a request to requestHandler
Start(u) ==
    /\ run = "crawling"
    /\ pc[u] = "queued"
    /\ ~isMaxPagesExceeded
    /\ Cardinality({v \in Urls : Running(v)}) < maxConcurrency
    /\ pc' = [pc EXCEPT ![u] = IF input.useApifyProxy THEN "proxy" ELSE "fast"]
    /\ loc' = [loc EXCEPT ![u] = FreshLocals]
    /\ steps' = [steps EXCEPT ![u] = << >>]
    /\ UNCHANGED <<input, retryCount, dataset, stats, handled, run, faults, resp, doc>>

\* line 258: await resolvedProxyConfiguration.newUrl(), outside the try
ProxyUrl(u) ==
    /\ pc[u] = "proxy"
    /\ \E ok \in BOOLEAN :
        IF ok
        THEN Continue(u, "fast", "proxy", loc[u])
        ELSE /\ Escaped(u)
             /\ Fault
             /\ UNCHANGED <<input, dataset, run, resp, doc>>

\* lines 264-282: the fast fetch and the decision on its response
\* (FastAcceptedAnyLength: line 274 as it would be without the length test)
FastAcceptedAnyLength(response) ==
    /\ ~isBlockedResponse(response.statusCode, response.body)
    /\ TruthyBody(response.body)

FastAccepted(response) ==
    /\ ~isBlockedResponse(response.statusCode, response.body)
    /\ TruthyBody(response.body)
    /\ TextLength(response.body.text) > MinFastBodyLen

\* the fast path as it would be if a fast fetch that threw were tried once more
FastFetchAgain(u) ==
    /\ pc[u] = "fast"
    /\ \/ Continue(u, IF "fast" \in Range(steps[u]) THEN "launch" ELSE "fast", "fast",
                    [loc[u] EXCEPT !.fast = "threw"])
       \/ \E response \in FastResponses :
            IF FastAccepted(response)
            THEN Continue(u, "buildFast", "fast",
                          [loc[u] EXCEPT !.fast = "accepted", !.response = response,
                                         !.html = response.body])
            ELSE Continue(u, "launch", "fast",
                          [loc[u] EXCEPT !.fast = "rejected", !.response = response])

FastFetch(u) ==
    /\ pc[u] = "fast"
    /\ \/ Continue(u, "launch", "fast", [loc[u] EXCEPT !.fast = "threw"])
       \/ \E response \in FastResponses :
            IF FastAccepted(response)
            THEN Continue(u, "buildFast", "fast",
                          [loc[u] EXCEPT !.fast = "accepted", !.response = response,
                                         !.html = response.body])
            ELSE Continue(u, "launch", "fast",
                          [loc[u] EXCEPT !.fast = "rejected", !.response = response])

\* line 275: buildMarkdownFromHtml(body, url, turndownService)
BuildFast(u) ==
    /\ pc[u] = "buildFast"
    /\ \/ Continue(u, "push", "build",
                   [loc[u] EXCEPT !.result = "fast", !.response = NoResponse])
       \/ Catch(u, "build", loc[u], "render failed")

\* line 286: chromium.launch, before the try/finally that owns the browser
Launch(u) ==
    /\ pc[u] = "launch"
    /\ loc[u].result = "null"
    /\ \/ Continue(u, "goto", "launch", [loc[u] EXCEPT !.browser = "open"])
       \/ Catch(u, "launch", loc[u], "browser launch failed")

\* lines 292-293 as they would be without the finally clause of line 301
NavigateWithoutFinally(u) ==
    /\ pc[u] = "goto"
    /\ \/ Continue(u, "idle", "goto", [loc[u] EXCEPT !.response = NoResponse])
       \/ Catch(u, "goto", loc[u], "navigation timeout")

\* lines 292-293: browser.newPage() and page.goto(); finally closes the browser
Navigate(u) ==
    /\ pc[u] = "goto"
    /\ \/ Continue(u, "idle", "goto", [loc[u] EXCEPT !.response = NoResponse])
       \/ Catch(u, "goto", [loc[u] EXCEPT !.browser = "closed"], "navigation timeout")

\* line 294: waitForLoadState('networkidle').catch(() => {})
WaitIdle(u) ==
    /\ pc[u] = "idle"
    /\ \E how \in {"reached", "timeout"} :
        Continue(u, "read", "idle", loc[u])

\* lines 296-297: page.title().catch(...) and page.content()
ReadPage(u) ==
    /\ pc[u] = "read"
    /\ \/ \E html \in RenderedPages :
            Continue(u, "buildRendered", "read", [loc[u] EXCEPT !.html = html])
       \/ Catch(u, "read", [loc[u] EXCEPT !.browser = "closed"], "page read failed")

\* lines 298-303: buildMarkdownFromHtml on the rendered HTML, page.close(),
\* and browser.close() in the finally clause
BuildRendered(u) ==
    /\ pc[u] = "buildRendered"
    /\ \/ Continue(u, "push", "build",
                   [loc[u] EXCEPT !.result = "rendered", !.browser = "closed",
                                  !.response = NoResponse])
       \/ Catch(u, "build", [loc[u] EXCEPT !.browser = "closed"], "render failed")

\* lines 307-323: Actor.pushData of the success record, the statistics
PushSuccess(u) ==
    /\ pc[u] = "push"
    /\ \/ /\ dataset' = [dataset EXCEPT ![u] = Append(@, SuccessRecord(loc[u].html))]
          /\ stats' = [stats EXCEPT !.processedPages = @ + 1]
          /\ IF input.delayBetweenRequests > 0
             THEN /\ pc' = [pc EXCEPT ![u] = "delay"]
                  /\ loc' = [loc EXCEPT ![u] = OutOfScope(@)]
                  /\ steps' = [steps EXCEPT ![u] = Append(@, "push")]
                  /\ UNCHANGED handled
             ELSE Returned(u)
          /\ UNCHANGED <<input, retryCount, run, faults, resp, doc>>
       \/ Catch(u, "push", loc[u], "dataset write failed")

\* line 322: the wait of delayBetweenRequests seconds, cut short by the
\* handler timeout of the crawler (line 252) when it is not shorter
Delay(u) ==
    /\ pc[u] = "delay"
    /\ IF input.delayBetweenRequests < requestHandlerTimeoutSecs
       THEN /\ Returned(u)
            /\ UNCHANGED <<retryCount, stats>>
       ELSE Escaped(u)
    /\ UNCHANGED <<input, dataset, run, faults, resp, doc>>

\* lines 330-338: Actor.pushData of the failure record, inside the catch block
PushFailure(u) ==
    /\ pc[u] = "catch"
    /\ \/ /\ dataset' = [dataset EXCEPT ![u] = Append(@, FailureRecord(loc[u].error))]
          /\ Returned(u)
          /\ UNCHANGED <<retryCount, stats, faults>>
       \/ /\ Escaped(u)
          /\ Fault
          /\ UNCHANGED dataset
    /\ UNCHANGED <<input, run, resp, doc>>

\* line 350: crawler.run(startUrls) resolves
Finalize ==
    /\ run = "crawling"
    /\ \A u \in Urls : ~Running(u)
    /\ \/ \A u \in Urls : pc[u] \in {"done", "failed"}
       \/ isMaxPagesExceeded
    /\ run' = "finished"
    /\ UNCHANGED <<input, pc, retryCount, loc, steps, dataset, stats, handled, faults,
                   resp, doc>>

\* lines 380-386: after the run, or after the catch has reported the error,
\* finally calls Actor.exit()
Exit ==
    /\ run \in {"finished", "aborted"}
    /\ run' = IF run = "finished" THEN "exited" ELSE "exited after error"
    /\ UNCHANGED <<input, pc, retryCount, loc, steps, dataset, stats, handled, faults,
                   resp, doc>>

Next ==
    \/ ValidateInput
    \/ CreateProxyConfiguration
    \/ Exit
    \/ \E u \in Urls :
        \/ Start(u)
        \/ ProxyUrl(u)
        \/ FastFetch(u)
        \/ BuildFast(u)
        \/ Launch(u)
        \/ Navigate(u)
        \/ WaitIdle(u)
        \/ ReadPage(u)
        \/ BuildRendered(u)
        \/ PushSuccess(u)
        \/ Delay(u)
        \/ PushFailure(u)
    \/ Finalize

Spec == Init /\ [][Next]_vars

(***************************************************************************)
(* Claims about the crawl (checked under Spec).                            *)
(***************************************************************************)

\* C1 (as claimed): once the run has finished, the dataset holds exactly one
\* record for every input URL.
C1_OneRecordPerUrl ==
    run = "finished" => \A u \in Urls : Len(dataset[u]) = 1

\* C2 (as claimed): no rejection leaves requestHandler: no request is ever
\* retried by the queue and failedRequestHandler is never reached.
C2_HandlerNeverThrows ==
    \A u \in Urls : retryCount[u] = 0 /\ pc[u] # "failed"

\* the calls that fetch the page
FetchSteps == {"fast", "launch", "goto", "idle", "read"}

\* the rendered strategy was invoked exactly once, and nothing was fetched
\* again after it
RenderedOnce(s) ==
    /\ Count(s, "launch") = 1
    /\ \A i, j \in DOMAIN s :
        (s[i] = "launch" /\ i < j) => s[j] \notin {"fast", "launch"}
    /\ \A x \in FetchSteps : Count(s, x) <= 1

\* the fast fetch failed or was turned down: the rendered strategy is about
\* to be invoked (line 285) or has been invoked exactly once
Escalated(u) ==
    loc[u].fast \in {"threw", "rejected"} =>
        \/ pc[u] = "launch" /\ Count(steps[u], "launch") = 0
        \/ RenderedOnce(steps[u])

\* C3 (as claimed): in one execution of the handler the fast fetch is the
\* first step and is attempted exactly once, and when it fails or is turned
\* down the rendered strategy is invoked exactly once with no fetch after it.
C3_FastFetchFirst ==
    \A u \in Urls :
        /\ steps[u] # << >> => steps[u][1] = "fast" /\ Count(steps[u], "fast") = 1
        /\ Escalated(u)

\* C3 (amended): the proxy URL, when the proxy is on, is acquired before the
\* fast fetch; the fast fetch comes before every other step, is attempted at
\* most once and exactly once when the proxy URL was acquired; a fast fetch
\* that throws, times out or returns a status >= 400 is followed by exactly
\* one invocation of the rendered strategy and by no other fetch.
C3_FetchEscalation ==
    \A u \in Urls :
        LET s == steps[u]
            rest == IF s # << >> /\ s[1] = "proxy" THEN Tail(s) ELSE s
        IN  /\ Count(s, "proxy") = (IF s # << >> /\ input.useApifyProxy THEN 1 ELSE 0)
            /\ rest # << >> => rest[1] = "fast" /\ Count(s, "fast") = 1
            /\ loc[u].response.statusCode >= 400 => loc[u].fast = "rejected"
            /\ pc[u] = "fast" => loc[u].fast = "none" /\ rest = << >>
            /\ (Running(u) /\ pc[u] \notin {"proxy", "fast"})
                  => loc[u].fast \in {"threw", "rejected", "accepted"}
            /\ loc[u].fast = "rejected" /\ pc[u] = "launch"
                  => ~FastAccepted(loc[u].response)
            /\ Escalated(u)

\* C3 witness: the fast fetch answered 403 and the browser has been launched
\* for the one rendered attempt.
C3_Witness ==
    \E u \in Urls :
        /\ pc[u] = "goto"
        /\ loc[u].response.statusCode = 403
        /\ Count(steps[u], "fast") = 1
        /\ Count(steps[u], "launch") = 1

BothFetchesThrew(u) ==
    /\ pc[u] = "catch"
    /\ loc[u].fast = "threw"
    /\ loc[u].error \in {"browser launch failed", "navigation timeout", "page read failed"}

\* C5 (as claimed): when the fast fetch and the rendered fetch have both
\* thrown, the handler writes the failure record, with the captured non-empty
\* message, as the only record of the URL, and returns normally.
C5_BothThrowOneFailureRecord ==
    [][ \A u \in Urls :
            (BothFetchesThrew(u) /\ pc'[u] # "catch") =>
                /\ pc'[u] = "done"
                /\ loc[u].error # ""
                /\ dataset'[u] = << FailureRecord(loc[u].error) >> ]_vars

\* C6 (as claimed): when the Block Detector rejected the fast response and
\* would reject the rendered HTML as well, no success record is written.
C6_BlockedTwiceNoSuccess ==
    [][ \A u \in Urls :
            ( /\ pc[u] = "push"
              /\ loc[u].fast = "rejected"
              /\ loc[u].result = "rendered"
              /\ isBlockedResponse(NoStatus, loc[u].html) )
            => dataset'[u] = dataset[u] ]_vars

\* C12 (as claimed): the run aborts exactly when the input is missing or
\* startUrls is not a non-empty array, and then before any URL is processed
\* and without any record; nothing else aborts the run.
C12_AbortsOnlyOnInvalidInput ==
    /\ run \in {"aborted", "exited after error"} => input.startUrls # "array"
    /\ input.startUrls # "array" =>
        /\ run \in {"starting", "aborted", "exited after error"}
        /\ \A u \in Urls : pc[u] = "queued" /\ dataset[u] = << >>

\* C13 (as claimed): with delayBetweenRequests > 0 no two handlers are ever in
\* progress together, and whenever a handler ends while another URL is still
\* to be started, it ends out of the wait of delayBetweenRequests seconds.
C13_SequentialWithDelayBetween ==
    [][ input.delayBetweenRequests > 0 =>
          /\ Cardinality({u \in Urls : Running(u)}) <= 1
          /\ \A u \in Urls :
                ( /\ Running(u)
                  /\ pc'[u] \in {"done", "failed"}
                  /\ \E v \in Urls \ {u} : pc'[v] = "queued"
                  /\ ~isMaxPagesExceeded' )
                => pc[u] = "delay" ]_vars

\* C14: a handler launches at most one browser, holds it only from the launch
\* to the end of the rendered fetch, and has closed it on every path before
\* it writes a record, waits or returns.
C14_BrowserClosedOnEveryPath ==
    \A u \in Urls :
        /\ Count(steps[u], "launch") <= 1
        /\ loc[u].browser # "none" => Count(steps[u], "launch") = 1
        /\ loc[u].browser = "open" => pc[u] \in {"goto", "idle", "read", "buildRendered"}
        /\ pc[u] \in {"push", "catch", "delay", "queued", "done", "failed"}
             => loc[u].browser # "open"

\* C14 witness: the navigation failed, the browser that was launched for it is
\* closed, and the failure record is still to be written.
C14_Witness ==
    \E u \in Urls :
        /\ pc[u] = "catch"
        /\ loc[u].error = "navigation timeout"
        /\ Count(steps[u], "launch") = 1
        /\ loc[u].browser = "closed"

\* C18 (as claimed): after the network-idle wait, timed out or not, the page
\* is read; a handler whose navigation failed attempts no extraction and
\* leaves the catch block by returning with the failure record written.
C18_IdleTimeoutNotFatalNavigationFatal ==
    [][ \A u \in Urls :
          /\ (pc[u] = "idle" /\ pc'[u] # "idle") => pc'[u] = "read"
          /\ ( /\ pc[u] = "catch"
               /\ loc[u].error = "navigation timeout"
               /\ pc'[u] # "catch" )
             => /\ Count(steps[u], "build") = 0
                /\ pc'[u] = "done"
                /\ dataset'[u] = Append(dataset[u], FailureRecord(loc[u].error)) ]_vars

\* the success records in the dataset, by URL and position
SuccessRecords ==
    UNION { { <<u, i>> : i \in {j \in DOMAIN dataset[u] : dataset[u][j].success} } :
            u \in Urls }

\* the URLs that were taken from the queue and ended without a success record
UrlsWithoutSuccess ==
    { u \in Urls :
        /\ pc[u] \in {"done", "failed"}
        /\ \A j \in DOMAIN dataset[u] : ~dataset[u][j].success }

\* C19 (as claimed): at the end of a run processedPages is the number of
\* success records, failedPages is the number of URLs that ended without a
\* success record, and their sum does not exceed the number of handled URLs.
C19_StatsMatchRecords ==
    run \in {"finished", "exited"} =>
        /\ stats.processedPages = Cardinality(SuccessRecords)
        /\ stats.failedPages = Cardinality(UrlsWithoutSuccess)
        /\ stats.processedPages + stats.failedPages <= handled

(***************************************************************************)
(* SpecBlock: isBlockedResponse on bounded responses.                      *)
(***************************************************************************)
\* lengths of filler that put a signal before, at and behind the end of the
\* sample
FillerLengths == {1, 500, SampleLen - 20, SampleLen - 7, SampleLen - 6, SampleLen}

Segments ==
    {Filler(n) : n \in FillerLengths}
        \cup {Signal(blockSignals[i], caps) : i \in DOMAIN blockSignals, caps \in BOOLEAN}

RECURSIVE SeqsUpTo(_, _)
SeqsUpTo(S, n) ==
    IF n = 0 THEN {<< >>}
    ELSE LET shorter == SeqsUpTo(S, n - 1)
         IN  shorter \cup {Append(q, x) : q \in shorter, x \in S}

Bodies == {NoBody} \cup {Body(segs) : segs \in SeqsUpTo(Segments, MaxSegs)}

StatusCodes == {NoStatus, 200, 399, 400, 404, 500}

InitBlock ==
    /\ input = [maxItems |-> 0, delayBetweenRequests |-> 0, useApifyProxy |-> FALSE]
    /\ InitCrawl
    /\ doc = NoDoc
    /\ \E statusCode \in StatusCodes, body \in Bodies :
        resp = [statusCode |-> statusCode, body |-> body, blocked |-> FALSE,
                stage |-> "given"]

Detect ==
    /\ resp.stage = "given"
    /\ resp' = [resp EXCEPT !.blocked = isBlockedResponse(resp.statusCode, resp.body),
                            !.stage = "answered"]
    /\ UNCHANGED <<input, pc, retryCount, loc, steps, dataset, stats, handled, run,
                   faults, doc>>

NextBlock == Detect

SpecBlock == InitBlock /\ [][NextBlock]_vars

\* where segment i of a text begins
StartOf(segs, i) == TextLength(SubSeq(segs, 1, i - 1))

\* a block signal, in any mix of cases, lies wholly in the first 2000 characters
SignalInPrefix(segs) ==
    \E i \in DOMAIN segs :
        /\ segs[i].sig \in Range(blockSignals)
        /\ segs[i].n = SignalLen(segs[i].sig)
        /\ StartOf(segs, i) + segs[i].n <= 2000

\* C7: isBlockedResponse answers true exactly when the status code is >= 400,
\* or the body is absent or empty, or a block signal occurs, in any case,
\* within the first 2000 characters of the body.
C7_BlockedExactlyWhen ==
    resp.stage = "answered" =>
        ( resp.blocked <=>
            \/ resp.statusCode >= 400
            \/ ~resp.body.present
            \/ resp.body.text = << >>
            \/ SignalInPrefix(resp.body.text) )

\* C7 witness: status 200, a signal written with capitals that ends exactly at
\* character 2000, answered blocked.
C7_Witness ==
    /\ resp.stage = "answered"
    /\ resp.statusCode = 200
    /\ resp.body = Body(<< Filler(SampleLen - 7), Signal("captcha", TRUE) >>)
    /\ resp.blocked

(***************************************************************************)
(* URLs and attribute values.  An attribute value is the text                *)
(*   [pad] [scheme ":"] ["//" auth] ["/"] seg "/" seg ... ["#f"]           *)
(* pad: surrounding white space; scheme "": none; caps: the scheme is      *)
(* written in capitals; auth "none": no "//", "empty": "//" with no host;   *)
(* root: the path begins with "/".                                         *)
(***************************************************************************)
Ref(pad, scheme, caps, auth, root, path, frag) ==
    [pad |-> pad, scheme |-> scheme, caps |-> caps, auth |-> auth, root |-> root,
     path |-> path, frag |-> frag]

\* the attribute is not there (attr() gives undefined)
Absent == Ref(FALSE, "<absent>", FALSE, "none", FALSE, << >>, FALSE)

\* toAbsolute's null
Null == Ref(FALSE, "<null>", FALSE, "none", FALSE, << >>, FALSE)

EmptyString == Ref(FALSE, "", FALSE, "none", FALSE, << >>, FALSE)

\* JavaScript truthiness of an attribute value
TruthyValue(value) == value # Absent /\ value # EmptyString

\* String.prototype.trim()
Trim(value) == [value EXCEPT !.pad = FALSE]

\* String.prototype.startsWith(prefix) for the four prefixes of line 43
StartsWith(value, prefix) ==
    /\ ~value.pad
    /\ IF prefix = "#"
       THEN value.scheme = "" /\ value.auth = "none" /\ ~value.root
                /\ value.path = << >> /\ value.frag
       ELSE ~value.caps /\ prefix = value.scheme

\* the path without its "." and ".." segments, as the URL parser leaves it
RECURSIVE RemoveDots(_, _)
RemoveDots(done, rest) ==
    IF rest = << >> THEN done
    ELSE IF Head(rest) = ".."
         THEN RemoveDots(IF done = << >> THEN << >> ELSE SubSeq(done, 1, Len(done) - 1),
                         Tail(rest))
         ELSE IF Head(rest) = "."
              THEN RemoveDots(done, Tail(rest))
              ELSE RemoveDots(Append(done, Head(rest)), Tail(rest))

Href(scheme, host, path, frag) ==
    [ok |-> TRUE, protocol |-> scheme,
     href |-> Ref(FALSE, scheme, FALSE, host, TRUE, RemoveDots(<< >>, path), frag)]

Invalid == [ok |-> FALSE, protocol |-> "", href |-> Null]

\* new URL(value, baseUrl), baseUrl an http or https URL
NewURL(value, baseUrl) ==
    IF value.scheme \in {"http", "https"}
    THEN IF value.auth \in {"none", "empty"} THEN Invalid
         ELSE Href(value.scheme, value.auth, value.path, value.frag)
    ELSE IF value.scheme # ""
    THEN [ok |-> TRUE, protocol |-> value.scheme,
          href |-> [Trim(value) EXCEPT !.caps = FALSE]]
    ELSE IF value.auth = "empty" THEN Invalid
    ELSE IF value.auth # "none"
    THEN Href(baseUrl.scheme, value.auth, value.path, value.frag)
    ELSE IF value.root
    THEN Href(baseUrl.scheme, baseUrl.auth, value.path, value.frag)
    ELSE IF value.path = << >>
    THEN Href(baseUrl.scheme, baseUrl.auth, baseUrl.path, value.frag)
    ELSE Href(baseUrl.scheme, baseUrl.auth,
              (IF baseUrl.path = << >> THEN << >>
               ELSE SubSeq(baseUrl.path, 1, Len(baseUrl.path) - 1)) \o value.path,
              value.frag)

\* lines 40-54 (toAbsoluteAnyScheme: as it would be without the test of line 49)
toAbsoluteAnyScheme(value, baseUrl) ==
    IF ~TruthyValue(value) THEN Null
    ELSE LET trimmed == Trim(value)
         IN  IF trimmed = EmptyString
                   \/ \E prefix \in {"#", "mailto", "javascript", "tel"} :
                          StartsWith(trimmed, prefix)
             THEN Null
             ELSE LET resolved == NewURL(trimmed, baseUrl)
                  IN  IF ~resolved.ok THEN Null ELSE resolved.href

toAbsolute(value, baseUrl) ==
    IF ~TruthyValue(value) THEN Null
    ELSE LET trimmed == Trim(value)
         IN  IF trimmed = EmptyString
                   \/ \E prefix \in {"#", "mailto", "javascript", "tel"} :
                          StartsWith(trimmed, prefix)
             THEN Null
             ELSE LET resolved == NewURL(trimmed, baseUrl)
                  IN  IF ~resolved.ok THEN Null
                      ELSE IF resolved.protocol \notin {"http", "https"} THEN Null
                      ELSE resolved.href

(***************************************************************************)
(* srcset values: a sequence of comma-separated parts; a part is blank or  *)
(* a link followed by descriptor tokens.                                   *)
(***************************************************************************)
Part(link, descs) == [blank |-> FALSE, link |-> link, descs |-> descs]

BlankPart == [blank |-> TRUE, link |-> EmptyString, descs |-> << >>]

NoSrcset == [has |-> FALSE, parts |-> << >>]

Srcset(parts) == [has |-> TRUE, parts |-> parts]

RECURSIVE NormalizedParts(_, _)
\* the parts of a sequence whose link toAbsolute accepts, rewritten
NormalizedParts(parts, baseUrl) ==
    IF parts = << >> THEN << >>
    ELSE LET part == Head(parts)
             \* part.split(/\s+/, 2)
             descriptor == IF part.descs = << >> THEN << >> ELSE << part.descs[1] >>
             absolute == toAbsolute(part.link, baseUrl)
         IN  (IF part.blank \/ absolute = Null THEN << >>
              ELSE << Part(absolute, descriptor) >>)
             \o NormalizedParts(Tail(parts), baseUrl)

\* the transform as it would be if a rejected entry were kept unchanged
RECURSIVE KeepAllParts(_, _)
KeepAllParts(parts, baseUrl) ==
    IF parts = << >> THEN << >>
    ELSE LET part == Head(parts)
             descriptor == IF part.descs = << >> THEN << >> ELSE << part.descs[1] >>
             absolute == toAbsolute(part.link, baseUrl)
         IN  (IF part.blank THEN << >>
              ELSE IF absolute = Null THEN << Part(part.link, descriptor) >>
              ELSE << Part(absolute, descriptor) >>)
             \o KeepAllParts(Tail(parts), baseUrl)

\* lines 75-88: the transform given for srcset; << >> is the empty string
srcsetTransform(parts, baseUrl) == NormalizedParts(parts, baseUrl)

(***************************************************************************)
(* HTML.  A fragment (the string given to load, or returned) is a sequence *)
(* of elements, written inside a <body> tag or not; an element has a tag,  *)
(* class tokens, an id, the URL-bearing attributes and child elements.     *)
(***************************************************************************)
Element(tag, class, id, href, src, srcset, kids) ==
    [tag |-> tag, class |-> class, id |-> id, href |-> href, src |-> src,
     srcset |-> srcset, kids |-> kids]

Fragment(body, nodes) == [body |-> body, nodes |-> nodes]

\* the start tags that the HTML parser keeps in <head> while no body content
\* has been seen
HeadTags ==
    {"base", "basefont", "bgsound", "link", "meta", "title", "noscript", "noframes",
     "style", "script", "template"}

\* the elements of a tree, parents before children, in document order
RECURSIVE Flat(_)
Flat(nodes) ==
    IF nodes = << >> THEN << >>
    ELSE << Head(nodes) >> \o Flat(Head(nodes).kids) \o Flat(Tail(nodes))

RECURSIVE LeadingHead(_)
LeadingHead(nodes) ==
    IF nodes = << >> \/ Head(nodes).tag \notin HeadTags THEN 0
    ELSE 1 + LeadingHead(Tail(nodes))

\* line 11: load(html || ''), the document the parser builds
load(html) ==
    LET k == IF html.body THEN 0 ELSE LeadingHead(html.nodes)
    IN  [head |-> SubSeq(html.nodes, 1, k),
         body |-> SubSeq(html.nodes, k + 1, Len(html.nodes))]

\* $(selector).remove() as it would be if it matched top-level elements only
RECURSIVE RemoveTopLevel(_, _, _)
RemoveTopLevel(nodes, tags, classes) ==
    IF nodes = << >> THEN << >>
    ELSE LET el == Head(nodes)
         IN  (IF el.tag \in tags \/ el.class \cap classes # {} THEN << >>
              ELSE << el >>)
             \o RemoveTopLevel(Tail(nodes), tags, classes)

\* $(selector).remove() for a list of tag and class selectors
RECURSIVE Remove(_, _, _)
Remove(nodes, tags, classes) ==
    IF nodes = << >> THEN << >>
    ELSE LET el == Head(nodes)
         IN  (IF el.tag \in tags \/ el.class \cap classes # {} THEN << >>
              ELSE << [el EXCEPT !.kids = Remove(el.kids, tags, classes)] >>)
             \o Remove(Tail(nodes), tags, classes)

\* line 14
nonContentTags == {"script", "style", "noscript", "iframe", "template"}

\* lines 16-37
noiseTags == {"nav", "header", "footer", "aside"}

noiseClasses ==
    {"sidebar", "advertisement", "ads", "ad", "promo", "newsletter", "subscribe",
     "share", "social", "breadcrumb", "breadcrumbs", "comment", "comments", "cookie",
     "modal", "popup"}

\* lines 56-66, for one element: the attribute keeps its value unless the
\* value is truthy and the transform gives a truthy next value
absolutizeAttr(value, nextValue) ==
    IF ~TruthyValue(value) THEN value
    ELSE IF nextValue # Null /\ nextValue # EmptyString THEN nextValue
    ELSE value

absolutizeSrcset(srcset, baseUrl) ==
    IF ~srcset.has \/ srcset.parts = << >> THEN srcset
    ELSE LET nextValue == srcsetTransform(srcset.parts, baseUrl)
         IN  IF nextValue # << >> THEN Srcset(nextValue) ELSE srcset

\* lines 68-88, for one element
hrefTags == {"a", "link"}

srcTags == {"img", "source", "video", "audio", "track"}

srcsetTags == {"img", "source"}

absolutizeElement(el, baseUrl) ==
    [el EXCEPT
        !.href = IF el.tag \in hrefTags
                 THEN absolutizeAttr(@, toAbsolute(@, baseUrl)) ELSE @,
        !.src = IF el.tag \in srcTags
                THEN absolutizeAttr(@, toAbsolute(@, baseUrl)) ELSE @,
        !.srcset = IF el.tag \in srcsetTags
                   THEN absolutizeSrcset(@, baseUrl) ELSE @]

RECURSIVE absolutize(_, _)
absolutize(nodes, baseUrl) ==
    [i \in DOMAIN nodes |->
        [absolutizeElement(nodes[i], baseUrl)
            EXCEPT !.kids = absolutize(nodes[i].kids, baseUrl)]]

\* lines 13-38: the document without non-content and noise elements
strip(document) ==
    LET clean(nodes) == Remove(Remove(nodes, nonContentTags, {}), noiseTags, noiseClasses)
    IN  [head |-> clean(document.head), body |-> clean(document.body)]

\* lines 10-92
normalizeHtmlForMarkdown(html, baseUrl) ==
    LET document == strip(load(html))
        \* lines 90-91: $('body').html(), the children of <body> serialized
    IN  Fragment(FALSE, absolutize(document.body, baseUrl))

(***************************************************************************)
(* SpecNorm: normalizeHtmlForMarkdown on bounded fragments, applied once   *)
(* and then again to its own output.                                       *)
(***************************************************************************)
RelPath == Ref(FALSE, "", FALSE, "none", FALSE, << "a", "b" >>, FALSE)       \* a/b
UpPath == Ref(FALSE, "", FALSE, "none", FALSE, << "..", "a" >>, FALSE)       \* ../a
RootPath == Ref(FALSE, "", FALSE, "none", TRUE, << "a" >>, TRUE)             \* /a#f
NetPath == Ref(FALSE, "", FALSE, "cdn", TRUE, << "a" >>, FALSE)              \* //cdn/a
BadNetPath == Ref(FALSE, "", FALSE, "empty", FALSE, << >>, FALSE)            \* //
PaddedPath == Ref(TRUE, "", FALSE, "none", FALSE, << "a", "b" >>, FALSE)     \* " a/b "
FragmentOnly == Ref(FALSE, "", FALSE, "none", FALSE, << >>, TRUE)            \* #f
PaddedFragment == Ref(TRUE, "", FALSE, "none", FALSE, << >>, TRUE)           \* " #f"
Blank == Ref(TRUE, "", FALSE, "none", FALSE, << >>, FALSE)                   \* "  "
Mailto == Ref(FALSE, "mailto", FALSE, "none", FALSE, << "x" >>, FALSE)       \* mailto:x
CapsMailto == Ref(FALSE, "mailto", TRUE, "none", FALSE, << "x" >>, FALSE)    \* MAILTO:x
Javascript == Ref(FALSE, "javascript", FALSE, "none", FALSE, << "x" >>, FALSE)
Tel == Ref(FALSE, "tel", FALSE, "none", FALSE, << "x" >>, FALSE)
DataUrl == Ref(FALSE, "data", FALSE, "none", FALSE, << "x" >>, FALSE)        \* data:x
AbsPlain == Ref(FALSE, "http", FALSE, "h", TRUE, << "a" >>, FALSE)           \* http://h/a
AbsDots == Ref(FALSE, "https", TRUE, "h2", TRUE, << "a", "..", "b" >>, FALSE) \* HTTPS://h2/a/../b

\* the href values of the top-level anchors; the other values are on the
\* elements inside Containers and in SrcsetValues
HrefValues ==
    {RelPath, NetPath, BadNetPath, FragmentOnly, PaddedFragment, Blank, Mailto,
     CapsMailto, AbsDots}

SrcsetValues ==
    { Srcset(<< Part(RelPath, << >>), Part(UpPath, << "2x" >>) >>),
      Srcset(<< Part(DataUrl, << "1x" >>), Part(RelPath, << "2x" >>) >>),
      Srcset(<< Part(RelPath, << "100w", "2x" >>) >>),
      Srcset(<< BlankPart, Part(AbsPlain, << "1x" >>) >>),
      Srcset(<< Part(DataUrl, << "1x" >>) >>) }

Leaf(tag, class, href, src, srcset) == Element(tag, class, "", href, src, srcset, << >>)

Anchor(href) == Leaf("a", {}, href, Absent, NoSrcset)

Leaves ==
    {Anchor(href) : href \in HrefValues}
        \cup {Leaf("img", {}, Absent, src, NoSrcset) : src \in {DataUrl}}
        \cup {Leaf("img", {}, Absent, RelPath, srcset) : srcset \in SrcsetValues}
        \cup { Leaf("source", {}, Absent, Absent,
                    Srcset(<< Part(NetPath, << "480w" >>), Part(Mailto, << "800w" >>) >>)),
               Leaf("link", {}, RelPath, Absent, NoSrcset),
               Leaf("area", {}, RelPath, Absent, NoSrcset),
               Leaf("embed", {}, Absent, RelPath, NoSrcset),
               Leaf("script", {}, Absent, RelPath, NoSrcset),
               Leaf("title", {}, Absent, Absent, NoSrcset),
               Leaf("a", {"btn", "share"}, RelPath, Absent, NoSrcset) }

Containers ==
    { Element("div", {}, "", Absent, Absent, NoSrcset,
              << Anchor(Tel), Leaf("img", {}, Absent, RootPath, NoSrcset) >>),
      Element("nav", {}, "", Absent, Absent, NoSrcset, << Anchor(RelPath) >>),
      Element("div", {}, "sidebar", Absent, Absent, NoSrcset,
              << Anchor(Javascript), Anchor(EmptyString) >>),
      Element("div", {"post"}, "", Absent, Absent, NoSrcset,
              << Leaf("script", {}, Absent, RelPath, NoSrcset),
                 Leaf("span", {"ad"}, Absent, Absent, NoSrcset),
                 Anchor(PaddedPath) >>) }

\* request.url, an http or https URL
BaseUrls ==
    { Ref(FALSE, "https", FALSE, "example.test", TRUE, << "docs", "page" >>, FALSE),
      Ref(FALSE, "http", FALSE, "h", TRUE, << >>, FALSE) }

NoFragment == Fragment(FALSE, << >>)

InitNorm ==
    /\ input = [maxItems |-> 0, delayBetweenRequests |-> 0, useApifyProxy |-> FALSE]
    /\ InitCrawl
    /\ resp = NoResp
    /\ \E body \in BOOLEAN, n \in 0 .. MaxNodes, baseUrl \in BaseUrls :
        \E nodes \in [1 .. n -> Leaves \cup Containers] :
            doc = [stage |-> "given", html |-> Fragment(body, nodes),
                   baseUrl |-> baseUrl, once |-> NoFragment, twice |-> NoFragment]

Normalize ==
    /\ doc.stage = "given"
    /\ doc' = [doc EXCEPT !.stage = "once",
                          !.once = normalizeHtmlForMarkdown(doc.html, doc.baseUrl)]
    /\ UNCHANGED <<input, pc, retryCount, loc, steps, dataset, stats, handled, run,
                   faults, resp>>

NormalizeAgain ==
    /\ doc.stage = "once"
    /\ doc' = [doc EXCEPT !.stage = "twice",
                          !.twice = normalizeHtmlForMarkdown(doc.once, doc.baseUrl)]
    /\ UNCHANGED <<input, pc, retryCount, loc, steps, dataset, stats, handled, run,
                   faults, resp>>

NextNorm == Normalize \/ NormalizeAgain

SpecNorm == InitNorm /\ [][NextNorm]_vars

\* the elements of the input that the output keeps, before any rewriting
KeptInput == Flat(strip(load(doc.html)).body)

Output == Flat(doc.once.nodes)

\* the value, trimmed, starts with #, mailto:, javascript: or tel:
Exempt(value) ==
    LET t == Trim(value)
    IN  \/ t.scheme = "" /\ t.auth = "none" /\ ~t.root /\ t.path = << >> /\ t.frag
        \/ t.scheme \in {"mailto", "javascript", "tel"} /\ ~t.caps

\* a relative reference: no scheme, not blank, not exempt
Relative(value) ==
    /\ value # Absent
    /\ Trim(value) # EmptyString
    /\ value.scheme = ""
    /\ ~Exempt(value)

\* an absolute http or https URL as the URL parser serializes it
AbsoluteHttp(value) ==
    /\ value.scheme \in {"http", "https"}
    /\ ~value.pad /\ ~value.caps
    /\ value.auth \notin {"none", "empty"}
    /\ value.root
    /\ \A i \in DOMAIN value.path : value.path[i] \notin {".", ".."}

\* C8 (as claimed): after normalize no href or src attribute of the output
\* holds a relative reference, and the output has the kept elements of the
\* input with their exempt values as they were.
C8_NoRelativeUrlLeft ==
    doc.stage # "given" =>
        LET kept == KeptInput
            out == Output
        IN
        /\ Len(out) = Len(kept)
        /\ \A i \in DOMAIN out :
            /\ ~Relative(out[i].href) /\ ~Relative(out[i].src)
            /\ Exempt(kept[i].href) => out[i].href = kept[i].href
            /\ Exempt(kept[i].src) => out[i].src = kept[i].src

\* the attribute of the element is one that lines 68-74 rewrite
Rewritten(el, attr) ==
    IF attr = "href" THEN el.tag \in {"a", "link"}
    ELSE el.tag \in {"img", "source", "video", "audio", "track"}

\* C8 (amended): for hrefs of a and link elements and srcs of img, source,
\* video, audio and track elements, every relative reference that resolves
\* against the base URL (not "//" without a host) is an absolute http/https
\* URL in the output, and every value that was changed is one; href and src
\* of other elements, and exempt values, are left exactly as they were.
C8_RelativeMadeAbsolute ==
    doc.stage # "given" =>
        LET kept == KeptInput
            out == Output
        IN
        /\ Len(out) = Len(kept)
        /\ \A i \in DOMAIN out : \A attr \in {"href", "src"} :
            LET old == kept[i][attr]
                new == out[i][attr]
            IN  /\ (Rewritten(kept[i], attr) /\ Relative(old)
                        /\ Trim(old).auth # "empty") => AbsoluteHttp(new)
                /\ new # old => AbsoluteHttp(new)
                /\ ~Rewritten(kept[i], attr) => new = old
                /\ Exempt(old) => new = old

\* C8 witness: a relative href of an anchor was rewritten to an absolute URL
\* next to an exempt value that was kept.
C8_Witness ==
    /\ doc.stage = "once"
    /\ doc.html.nodes = << Anchor(RelPath), Anchor(PaddedFragment) >>
    /\ AbsoluteHttp(doc.once.nodes[1].href)
    /\ doc.once.nodes[2].href = PaddedFragment

\* C9 (as claimed): every srcset of the output has as many entries as it had
\* in the input, each with the descriptor tokens it had.
C9_SrcsetEntriesKept ==
    doc.stage # "given" =>
        LET kept == KeptInput
            out == Output
        IN
        /\ Len(out) = Len(kept)
        /\ \A i \in DOMAIN out :
            LET old == kept[i].srcset.parts
                new == out[i].srcset.parts
            IN  /\ Len(new) = Len(old)
                /\ \A k \in DOMAIN old : new[k].descs = old[k].descs

\* the resolution rule accepts the link of the part
Accepted(part) ==
    LET t == Trim(part.link)
    IN  /\ ~part.blank
        /\ t # EmptyString
        /\ ~Exempt(t)
        /\ t.scheme \in {"", "http", "https"}
        /\ t.auth # "empty"
        /\ t.scheme # "" => t.auth # "none"

FirstDescriptor(part) ==
    IF part.descs = << >> THEN << >> ELSE << part.descs[1] >>

\* C9 (amended): the srcset of an img or source element becomes the list of
\* its entries whose URL the resolution rule accepts, in their order, each
\* with an absolute URL and its first descriptor token; rejected and blank
\* entries and further descriptor tokens are dropped; with no accepted entry
\* the attribute stays as it was.
C9_SrcsetAcceptedEntriesKept ==
    doc.stage # "given" =>
        LET kept == KeptInput
            out == Output
        IN
        /\ Len(out) = Len(kept)
        /\ \A i \in DOMAIN out :
            LET old == kept[i].srcset
                new == out[i].srcset
                accepted == SelectSeq(old.parts, Accepted)
            IN  IF kept[i].tag \notin {"img", "source"} \/ accepted = << >>
                THEN new = old
                ELSE /\ new.has
                     /\ Len(new.parts) = Len(accepted)
                     /\ \A k \in DOMAIN accepted :
                         /\ ~new.parts[k].blank
                         /\ AbsoluteHttp(new.parts[k].link)
                         /\ new.parts[k].descs = FirstDescriptor(accepted[k])

\* C9 witness: of a data: entry and a relative one, the relative one is left,
\* absolute, with its descriptor.
C9_Witness ==
    /\ doc.stage = "once"
    /\ doc.html.nodes
         = << Leaf("img", {}, Absent, RelPath,
                   Srcset(<< Part(DataUrl, << "1x" >>), Part(RelPath, << "2x" >>) >>)) >>
    /\ Len(doc.once.nodes[1].srcset.parts) = 1
    /\ doc.once.nodes[1].srcset.parts[1].descs = << "2x" >>

\* C10 (as claimed): normalize applied to its own output changes nothing.
C10_Idempotent ==
    doc.stage = "twice" => doc.twice = doc.once

\* C17 (as claimed): the output of normalize has no script, style, noscript,
\* iframe or template element and no element whose tag name, class token or id
\* is on the noise denylist, at any depth.
C17_NoDenylistedElement ==
    doc.stage # "given" =>
        \A el \in Range(Flat(doc.once.nodes)) :
            /\ el.tag \notin nonContentTags \cup noiseTags
            /\ el.class \cap noiseClasses = {}
            /\ el.id \notin noiseClasses

\* C17 (amended): the same for tag names and class tokens; an element whose
\* id alone is on the list is kept.
C17_NoDenylistedTagOrClass ==
    doc.stage # "given" =>
        \A el \in Range(Flat(doc.once.nodes)) :
            /\ el.tag \notin nonContentTags \cup noiseTags
            /\ el.class \cap noiseClasses = {}

\* C17 witness: of a div that holds a script, a span of class ad and an anchor,
\* the div and the anchor are left.
C17_Witness ==
    /\ doc.stage = "once"
    /\ Len(doc.html.nodes) = 1
    /\ doc.html.nodes[1].class = {"post"}
    /\ Len(doc.html.nodes[1].kids) = 3
    /\ Len(doc.once.nodes) = 1
    /\ Len(doc.once.nodes[1].kids) = 1
    /\ doc.once.nodes[1].kids[1].tag = "a"

(***************************************************************************)
(* SpecPick: pickMainContent on bounded pages.                             *)
(***************************************************************************)
\* text is a sequence of runs, each of n whitespace or n other characters
Word(n) == [ws |-> FALSE, n |-> n]

Space(n) == [ws |-> TRUE, n |-> n]

\* an element of a page: its own text, then its children
PageElement(tag, class, id, role, text, kids) ==
    [tag |-> tag, class |-> class, id |-> id, role |-> role, text |-> text,
     kids |-> kids]

\* $(el).text(): the text of the element and of its descendants
RECURSIVE TextOfAll(_)
TextOfAll(nodes) ==
    IF nodes = << >> THEN << >>
    ELSE Head(nodes).text \o TextOfAll(Head(nodes).kids) \o TextOfAll(Tail(nodes))

\* line 114: replace(/\s+/g, ' ').trim().length; pending is "none" before the
\* first word, "gap" after whitespace that follows a word, else "word"
RECURSIVE CollapsedLength(_, _)
CollapsedLength(runs, pending) ==
    IF runs = << >> THEN 0
    ELSE IF Head(runs).n = 0 THEN CollapsedLength(Tail(runs), pending)
    ELSE IF Head(runs).ws
         THEN CollapsedLength(Tail(runs), IF pending = "none" THEN "none" ELSE "gap")
         ELSE Head(runs).n + (IF pending = "gap" THEN 1 ELSE 0)
                + CollapsedLength(Tail(runs), "word")

\* lines 113-116
getLength(el) == CollapsedLength(TextOfAll(<< el >>), "none")

\* line 121: len > 120
MinContentLen == 120

Selector(kind, name) == [kind |-> kind, name |-> name]

\* lines 94-109
CONTENT_SELECTORS ==
    << Selector("tag", "article"), Selector("tag", "main"), Selector("role", "main"),
       Selector("class", "main-content"), Selector("class", "content"),
       Selector("id", "content"), Selector("class", "post-content"),
       Selector("class", "entry-content"), Selector("class", "article-content"),
       Selector("class", "article-body"), Selector("class", "blog-post"),
       Selector("class", "markdown-body"), Selector("class", "docs-main"),
       Selector("class", "documentation") >>

\* the element is in $(selector)
Matches(el, selector) ==
    CASE selector.kind = "tag" -> el.tag = selector.name
      [] selector.kind = "role" -> el.role = selector.name
      [] selector.kind = "class" -> selector.name \in el.class
      [] selector.kind = "id" -> el.id = selector.name

\* $(el).html(), $('body').html(), $.root().html(): what was serialized, and
\* its text and elements
Html(of, text, nodes) == [of |-> of, text |-> text, nodes |-> nodes]

NoBest == [html |-> Null, length |-> 0]

\* a title that is null or undefined
NoTitle == "<null>"

\* lines 119-126: $(selector).each over the elements in document order
RECURSIVE Each(_, _, _)
Each(elements, selector, best) ==
    IF elements = << >> THEN best
    ELSE LET el == Head(elements)
             len == getLength(el)
         IN  Each(Tail(elements), selector,
                  IF Matches(el, selector) /\ len > best.length /\ len > MinContentLen
                  THEN [html |-> Html("element", el.text, el.kids), length |-> len]
                  ELSE best)

\* lines 119-127 without the break of line 126
RECURSIVE ScanEveryTier(_, _, _)
ScanEveryTier(elements, selectors, best) ==
    IF selectors = << >> THEN best
    ELSE ScanEveryTier(elements, Tail(selectors), Each(elements, Head(selectors), best))

\* lines 119-127: the loop over CONTENT_SELECTORS
RECURSIVE Scan(_, _, _)
Scan(elements, selectors, best) ==
    IF selectors = << >> THEN best
    ELSE LET next == Each(elements, Head(selectors), best)
         IN  IF next.html # Null THEN next
             ELSE Scan(elements, Tail(selectors), next)

\* lines 111-136; a page is a fragment of page elements
pickMainContent(html) ==
    LET document == load(html)
        best == Scan(Flat(document.head \o document.body), CONTENT_SELECTORS, NoBest)
        titles == SelectSeq(Flat(document.head \o document.body),
                            LAMBDA el : el.tag = "title")
    IN  [ mainHtml |->
              IF best.html # Null THEN best.html
              ELSE IF document.body # << >> THEN Html("body", << >>, document.body)
              ELSE Html("document", << >>, document.head),
          titleFromDom |->
              IF titles # << >> /\ CollapsedLength(TextOfAll(<< titles[1] >>), "none") > 0
              THEN "page title" ELSE NoTitle ]

Block(tag, class, id, role, text) == PageElement(tag, class, id, role, text, << >>)

PageElements ==
    { Block("article", {}, "", "", << Word(50) >>),
      Block("article", {}, "", "", << Word(120) >>),
      Block("article", {}, "", "", << Word(121) >>),
      Block("article", {}, "", "",
            << Space(5), Word(60), Space(40), Word(59), Space(10) >>),
      Block("article", {"content"}, "", "", << Word(100), Space(3), Word(29) >>),
      PageElement("article", {}, "", "", << Word(100), Space(1) >>,
                  << Block("div", {"content"}, "", "", << Word(125) >>) >>),
      Block("main", {}, "", "", << Word(200) >>),
      Block("div", {}, "", "main", << Word(150) >>),
      Block("div", {"content"}, "", "", << Word(300) >>),
      Block("div", {"content", "wide"}, "", "", << Word(500) >>),
      Block("div", {}, "content", "", << Word(400) >>),
      Block("div", {"documentation"}, "", "", << Word(130) >>),
      Block("div", {}, "", "", << Word(600) >>),
      Block("title", {}, "", "", << Word(5) >>),
      Block("title", {}, "", "", << Space(3) >>) }

InitPick ==
    /\ input = [maxItems |-> 0, delayBetweenRequests |-> 0, useApifyProxy |-> FALSE]
    /\ InitCrawl
    /\ resp = NoResp
    /\ \E body \in BOOLEAN, n \in 0 .. MaxNodes :
        \E nodes \in [1 .. n -> PageElements] :
            doc = [stage |-> "given", html |-> Fragment(body, nodes),
                   picked |-> [mainHtml |-> Null, titleFromDom |-> NoTitle]]

Pick ==
    /\ doc.stage = "given"
    /\ doc' = [doc EXCEPT !.stage = "picked", !.picked = pickMainContent(doc.html)]
    /\ UNCHANGED <<input, pc, retryCount, loc, steps, dataset, stats, handled, run,
                   faults, resp>>

NextPick == Pick

SpecPick == InitPick /\ [][NextPick]_vars

\* the element qualifies: its collapsed text is longer than 120 characters
Qualifies(el) == getLength(el) > 120

\* the tiers, by their place in the priority order, that have a qualifying
\* element among els
QualifyingTiers(els) ==
    { t \in DOMAIN CONTENT_SELECTORS :
        \E i \in DOMAIN els : Matches(els[i], CONTENT_SELECTORS[t]) /\ Qualifies(els[i]) }

\* some longest qualifying element of the first qualifying tier is what was picked
LongestOfFirstTier(els, tiers, picked) ==
    LET first == CHOOSE t \in tiers : \A other \in tiers : t <= other
        candidates == { i \in DOMAIN els :
                          Matches(els[i], CONTENT_SELECTORS[first]) /\ Qualifies(els[i]) }
    IN  \E i \in candidates :
            /\ \A j \in candidates : getLength(els[j]) <= getLength(els[i])
            /\ picked = Html("element", els[i].text, els[i].kids)

\* C11 (as claimed): pickMainContent returns the content of a longest element
\* of the first selector tier that has an element of more than 120 collapsed
\* characters, and the full body content when no element qualifies.
C11_FirstQualifyingTierWins ==
    doc.stage = "picked" =>
        LET els == Flat(doc.html.nodes)
            tiers == QualifyingTiers(els)
        IN  IF tiers # {} THEN LongestOfFirstTier(els, tiers, doc.picked.mainHtml)
            ELSE doc.picked.mainHtml = Html("body", << >>, load(doc.html).body)

\* C11 (amended): as claimed, except that when no element qualifies and the
\* body is empty, the serialized whole document is returned in place of the
\* (empty) body content.
C11_FirstQualifyingTierOrBody ==
    doc.stage = "picked" =>
        LET els == Flat(doc.html.nodes)
            tiers == QualifyingTiers(els)
            document == load(doc.html)
        IN  IF tiers # {} THEN LongestOfFirstTier(els, tiers, doc.picked.mainHtml)
            ELSE IF document.body # << >>
                 THEN doc.picked.mainHtml = Html("body", << >>, document.body)
                 ELSE doc.picked.mainHtml = Html("document", << >>, document.head)

\* C11 witness: next to an <article> of 50 characters the .content div of 300
\* characters was picked.
C11_Witness ==
    /\ doc.stage = "picked"
    /\ doc.html.nodes = << Block("article", {}, "", "", << Word(50) >>),
                           Block("div", {"content"}, "", "", << Word(300) >>) >>
    /\ doc.picked.mainHtml = Html("element", << Word(300) >>, << >>)

(***************************************************************************)
(* SpecBuild: buildMarkdownFromHtml as requestHandler calls it on the fast *)
(* path and on the rendered path, and the success record made of its       *)
(* result.                                                                 *)
(***************************************************************************)
\* what extractFromHtml can do: throw, resolve to null, or resolve to an
\* article whose content and title may be empty
Threw == [threw |-> TRUE, null |-> FALSE, content |-> "", title |-> ""]

NullArticle == [threw |-> FALSE, null |-> TRUE, content |-> "", title |-> ""]

Article(content, title) ==
    [threw |-> FALSE, null |-> FALSE, content |-> content, title |-> title]

Extractions ==
    {Threw, NullArticle}
        \cup {Article(content, title) :
                content \in {"", "article html"}, title \in {"", NoTitle, "article title"}}

\* a || b for titles
OrElse(a, b) == IF a \notin {"", NoTitle} THEN a ELSE b

\* document.title of the page
DocumentTitle(html) ==
    LET title == pickMainContent(html).titleFromDom
    IN  IF title = NoTitle THEN "" ELSE title

\* the fourth argument of buildMarkdownFromHtml: absent at line 275, where the
\* default of line 157 applies; page.title().catch(() => 'Untitled') at
\* lines 296-298
titleFallback(path, html, titleRead) ==
    IF path = "fast" THEN "Untitled"
    ELSE IF titleRead = "rejected" THEN "Untitled"
    ELSE DocumentTitle(html)

\* lines 157-182 as they would be if the catch of line 162 rethrew
buildWithoutCatch(html, extraction, fallback) ==
    IF extraction.threw
    THEN [threw |-> TRUE, title |-> NoTitle, from |-> "none", content |-> Null,
          picked |-> FALSE]
    ELSE IF ~extraction.null /\ extraction.content # ""
    THEN [threw |-> FALSE,
          title |-> OrElse(OrElse(extraction.title, fallback), "Untitled"),
          from |-> "extractor", content |-> Html("article", << >>, << >>),
          picked |-> FALSE]
    ELSE LET main == pickMainContent(html)
         IN  [threw |-> FALSE,
              title |-> OrElse(OrElse(main.titleFromDom, fallback), "Untitled"),
              from |-> "selector", content |-> main.mainHtml, picked |-> TRUE]

\* lines 157-182: `from` and `content` stand for the markdown, made of what
\* the extractor or pickMainContent gave; picked: pickMainContent was called
buildMarkdownFromHtml(html, extraction, fallback) ==
    IF ~extraction.threw /\ ~extraction.null /\ extraction.content # ""
    THEN [threw |-> FALSE,
          title |-> OrElse(OrElse(extraction.title, fallback), "Untitled"),
          from |-> "extractor", content |-> Html("article", << >>, << >>),
          picked |-> FALSE]
    ELSE LET main == pickMainContent(html)
         IN  [threw |-> FALSE,
              title |-> OrElse(OrElse(main.titleFromDom, fallback), "Untitled"),
              from |-> "selector", content |-> main.mainHtml, picked |-> TRUE]

BuildElements ==
    { Block("title", {}, "", "", << Word(5) >>),
      Block("title", {}, "", "", << Space(3) >>),
      Block("article", {}, "", "", << Word(121) >>),
      Block("div", {}, "", "", << Word(600) >>) }

NoResult ==
    [threw |-> FALSE, title |-> NoTitle, from |-> "none", content |-> Null,
     picked |-> FALSE]

NoRecord == [success |-> FALSE, title |-> NoTitle, from |-> "none"]

InitBuild ==
    /\ input = [maxItems |-> 0, delayBetweenRequests |-> 0, useApifyProxy |-> FALSE]
    /\ InitCrawl
    /\ resp = NoResp
    /\ \E body \in BOOLEAN, n \in 0 .. MaxNodes, extraction \in Extractions,
          call \in {<<"fast", "none">>, <<"rendered", "resolved">>,
                    <<"rendered", "rejected">>} :
        \E nodes \in [1 .. n -> BuildElements] :
            doc = [stage |-> "given", html |-> Fragment(body, nodes),
                   path |-> call[1], titleRead |-> call[2],
                   extraction |-> extraction, result |-> NoResult,
                   record |-> NoRecord]

\* lines 275 and 298
Build ==
    /\ doc.stage = "given"
    /\ doc' = [doc EXCEPT
                 !.stage = "built",
                 !.result = buildMarkdownFromHtml(
                                doc.html, doc.extraction,
                                titleFallback(doc.path, doc.html, doc.titleRead))]
    /\ UNCHANGED <<input, pc, retryCount, loc, steps, dataset, stats, handled, run,
                   faults, resp>>

\* lines 307-314, or lines 330-338 when buildMarkdownFromHtml threw
PushBuilt ==
    /\ doc.stage = "built"
    /\ doc' = [doc EXCEPT
                 !.stage = "pushed",
                 !.record = IF doc.result.threw
                            THEN [success |-> FALSE, title |-> "Error", from |-> "none"]
                            ELSE [success |-> TRUE,
                                  title |-> OrElse(doc.result.title, "Untitled"),
                                  from |-> doc.result.from]]
    /\ UNCHANGED <<input, pc, retryCount, loc, steps, dataset, stats, handled, run,
                   faults, resp>>

NextBuild == Build \/ PushBuilt

SpecBuild == InitBuild /\ [][NextBuild]_vars

\* the extractor gave an article with non-empty content
HasContent(extraction) ==
    ~extraction.threw /\ ~extraction.null /\ extraction.content # ""

\* C15: when the extractor throws or gives null or empty content, the content
\* comes from pickMainContent and the record is a success record; when it
\* gives non-empty content, that content is used and pickMainContent is not
\* called.
C15_ExtractorFailureAbsorbed ==
    /\ doc.stage \in {"built", "pushed"} =>
        /\ ~doc.result.threw
        /\ IF HasContent(doc.extraction)
           THEN /\ doc.result.from = "extractor"
                /\ doc.result.content = Html("article", << >>, << >>)
                /\ ~doc.result.picked
           ELSE /\ doc.result.from = "selector"
                /\ doc.result.picked
                /\ doc.result.content = pickMainContent(doc.html).mainHtml
    /\ doc.stage = "pushed" =>
        /\ doc.record.success
        /\ doc.record.from = doc.result.from

\* C15 witness: the extractor threw and the success record holds the content
\* that pickMainContent chose.
C15_Witness ==
    /\ doc.stage = "pushed"
    /\ doc.extraction = Threw
    /\ doc.html.nodes = << Block("article", {}, "", "", << Word(121) >>) >>
    /\ doc.record.success
    /\ doc.record.from = "selector"
    /\ doc.result.content = Html("element", << Word(121) >>, << >>)

\* C16 (as claimed): when the extractor returns content, the title of the
\* record is the extractor's title if it is non-empty, else the text of the
\* page's <title> if it has one, else 'Untitled', on both paths.
C16_TitlePrecedence ==
    (doc.stage = "pushed" /\ HasContent(doc.extraction)) =>
        doc.record.title
            = IF doc.extraction.title \notin {"", NoTitle} THEN doc.extraction.title
              ELSE IF DocumentTitle(doc.html) # "" THEN DocumentTitle(doc.html)
              ELSE "Untitled"

====
